---- MODULE Spec2Model ----
(***************************************************************************)
(* Model of admin.js: the browser-side admin panel of the leaderboard.     *)
(*                                                                         *)
(* The module state of admin.js (isAuthenticated, adminApiKey,             *)
(* competitionState, the two interval handles), the browser objects the    *)
(* script reads and writes (sessionStorage, the table of live intervals,   *)
(* the disabled flags of the four buttons, the text of the four countdown  *)
(* fields, the visible section) and the HTTP requests in flight are the    *)
(* variables.  JavaScript runs every callback to completion, so one action *)
(* is one callback: an event handler up to its first await, or an async     *)
(* function from one await to the next.  A handler that reads the body      *)
(* awaits twice, fetch() and response.json(), and other callbacks run       *)
(* between the two.  The server is not modelled: a response is any status   *)
(* and body the server could send.                                          *)
(*                                                                         *)
(* Message texts, the status badge and the formatted timestamps are        *)
(* written by the script and read by nothing; they are not state here.     *)
(***************************************************************************)
EXTENDS Integers, Sequences, FiniteSets, Bags, TLC

\* ------------------------------------------------------------------ bounds
\* Requests that may be in flight at the same time.
MaxPending == 2
\* Seconds the clock may advance.
MaxTicks == 1
\* Calls of setInterval the page may make.
MaxHandles == 2
\* The same where the timers themselves are examined: one call more, so that
\* each timer is started over a live one.
MaxTimerHandles == 3

\* --------------------------------------------------------------- constants
STATUS_REFRESH_INTERVAL == 30000
TIMER_UPDATE_INTERVAL == 1000
MsPerSecond == 1000
MsPerMinute == 1000 * 60
MsPerHour == 1000 * 60 * 60
MsPerDay == 1000 * 60 * 60 * 24

\* A JavaScript null/undefined timestamp; 0 is falsy as well.
NoTime == 0
\* A null interval handle; the browser's handles are positive.
NoHandle == 0
\* The empty string: an unset key, and what getItem's null is tested as.
NoKey == ""

\* What session storage may hold when the page loads.
StoredKeys == {NoKey, "k1"}
\* What the user may have typed in the password field.
RawPasswords == {"", " ", "k2", " k2 "}
Durations == {7, 14, 30}

\* String.prototype.trim on the inputs above.
Trim(raw) ==
    CASE raw = " " -> ""
      [] raw = " k2 " -> "k2"
      [] OTHER -> raw

\* The clock starts one second after the epoch and advances by seconds.
StartNow == TIMER_UPDATE_INTERVAL
EndNow == StartNow + MaxTicks * TIMER_UPDATE_INTERVAL

\* ---------------------------------------------------------- server values
InitialCompetition ==
    [isActive |-> FALSE, isEnded |-> FALSE, startTime |-> NoTime,
     endTime |-> NoTime, remainingSeconds |-> 0, durationDays |-> 0]

\* An end time the clock crosses with its first tick.
NearEnd == StartNow + 500
\* An end time 3661000 ms after the start of the clock.
FarEnd == StartNow + MsPerHour + MsPerMinute + MsPerSecond

\* The competition objects a status body may carry.  The client trusts the
\* server's combination of isActive and isEnded.
ServerCompetitions ==
    { InitialCompetition,
      [isActive |-> TRUE, isEnded |-> FALSE, startTime |-> 500,
       endTime |-> NearEnd, remainingSeconds |-> 1, durationDays |-> 7],
      [isActive |-> TRUE, isEnded |-> FALSE, startTime |-> 500,
       endTime |-> FarEnd, remainingSeconds |-> 3661, durationDays |-> 14],
      [isActive |-> TRUE, isEnded |-> FALSE, startTime |-> 500,
       endTime |-> NoTime, remainingSeconds |-> 0, durationDays |-> 30],
      [isActive |-> FALSE, isEnded |-> TRUE, startTime |-> 500,
       endTime |-> NearEnd, remainingSeconds |-> 0, durationDays |-> 7],
      [isActive |-> TRUE, isEnded |-> TRUE, startTime |-> 500,
       endTime |-> NearEnd, remainingSeconds |-> 0, durationDays |-> 7] }

\* A response body: json is FALSE when response.json() throws.
NoBody == [json |-> FALSE, success |-> FALSE, hasCompetition |-> FALSE,
           competition |-> InitialCompetition]
PlainBody(ok) == [json |-> TRUE, success |-> ok, hasCompetition |-> FALSE,
                  competition |-> InitialCompetition]
StatusBody(c) == [json |-> TRUE, success |-> TRUE, hasCompetition |-> TRUE,
                  competition |-> c]

\* status 0 stands for a rejected fetch (network error): no response at all.
NetworkError == [status |-> 0, body |-> NoBody]
HttpStatuses == {200, 401, 403, 500}

AuthResponses ==
    {NetworkError} \cup {[status |-> c, body |-> NoBody] : c \in HttpStatuses}
StatusResponses ==
    AuthResponses
    \cup {[status |-> 200, body |-> PlainBody(ok)] : ok \in BOOLEAN}
    \cup {[status |-> 200, body |-> StatusBody(c)] : c \in ServerCompetitions}
ActionResponses ==
    {NetworkError}
    \cup {[status |-> c, body |-> b] :
            c \in HttpStatuses, b \in {NoBody, PlainBody(TRUE), PlainBody(FALSE)}}

\* response.ok
ResponseOk(resp) == resp.status >= 200 /\ resp.status <= 299
\* response.status === 401 || response.status === 403
IsUnauthorized(resp) == resp.status = 401 \/ resp.status = 403

\* ------------------------------------------------------------------- state
VARIABLES
    isAuthenticated,        \* let isAuthenticated
    adminApiKey,            \* let adminApiKey
    competitionState,       \* let competitionState
    statusRefreshInterval,  \* let statusRefreshInterval (NoHandle = null)
    countdownInterval,      \* let countdownInterval (NoHandle = null)
    sessionStorage,         \* sessionStorage['adminApiKey'] (NoKey = absent)
    intervals,              \* the browser's live intervals: [id, fn, delay]
    pending,                \* bag of requests awaiting a response
    disabled,               \* the disabled flag of each button
    display,                \* text of the countdown fields
    loginVisible,           \* login section shown (admin controls hidden)
    lastHandle,             \* the id the last setInterval call returned
    pc,                     \* "loading" or "ready"
    now,                    \* the wall clock, in ms
    refetches               \* refetches triggered for the current end time (observer)

vars == <<isAuthenticated, adminApiKey, competitionState, statusRefreshInterval,
          countdownInterval, sessionStorage, intervals, pending, disabled,
          display, loginVisible, lastHandle, pc, now, refetches>>

\* The state the callbacks read and write, as one value, so that a function
\* of the script is a function from state to state.
State ==
    [isAuthenticated |-> isAuthenticated, adminApiKey |-> adminApiKey,
     competitionState |-> competitionState,
     statusRefreshInterval |-> statusRefreshInterval,
     countdownInterval |-> countdownInterval,
     sessionStorage |-> sessionStorage, intervals |-> intervals,
     pending |-> pending, disabled |-> disabled, display |-> display,
     loginVisible |-> loginVisible, lastHandle |-> lastHandle,
     refetches |-> refetches]

\* A request in flight, named after the function awaiting its answer.  Its
\* header and body are read by the server only.  status: 0 while the function
\* awaits fetch(), then the status of the response it holds while it awaits
\* response.json().  old: a status request that was issued before the last
\* logout (observer).
Request(kind) == [kind |-> kind, old |-> FALSE, status |-> 0]

\* Every status request in flight becomes one of an earlier session.
MarkOld(bag) ==
    LET n(r) == IF r \in DOMAIN bag THEN bag[r] ELSE 0
        mark(r) == IF r.kind = "status" THEN [r EXCEPT !.old = TRUE] ELSE r
    IN  [o \in {mark(r) : r \in DOMAIN bag} |->
            IF o.kind = "status"
            THEN n(o) + n([o EXCEPT !.old = FALSE])
            ELSE n(o)]

NumPending == BagCardinality(pending)
NumOfKind(bag, kind) ==
    BagCardinality([r \in {q \in BagToSet(bag) : q.kind = kind} |-> bag[r]])

\* fetch(url, options): the request leaves; the caller awaits.
Send(s, kind) ==
    [s EXCEPT !.pending = @ (+) SetToBag({Request(kind)})]

\* setInterval: the handle it returns.  The ids of a page's timers come from
\* one increasing counter; the id of a cleared interval is not handed out
\* again.
NewHandle(s) == s.lastHandle + 1

\* clearInterval(h)
ClearInterval(s, h) ==
    [s EXCEPT !.intervals = {t \in @ : t.id # h}]

\* ------------------------------------------------------- UI helper functions
showLoginSection(s) == [s EXCEPT !.loginVisible = TRUE]
showAdminControls(s) == [s EXCEPT !.loginVisible = FALSE]

\* ------------------------------------------------------------------ timers
stopCountdown(s) ==
    IF s.countdownInterval # NoHandle
    THEN [ClearInterval(s, s.countdownInterval) EXCEPT
            !.countdownInterval = NoHandle]
    ELSE s

stopStatusRefresh(s) ==
    IF s.statusRefreshInterval # NoHandle
    THEN [ClearInterval(s, s.statusRefreshInterval) EXCEPT
            !.statusRefreshInterval = NoHandle]
    ELSE s

startStatusRefresh(s) ==
    LET s1 == stopStatusRefresh(s)
        h == NewHandle(s1)
    IN  [s1 EXCEPT
            !.statusRefreshInterval = h,
            !.lastHandle = h,
            !.intervals = @ \cup {[id |-> h, fn |-> "fetchStatus",
                                   delay |-> STATUS_REFRESH_INTERVAL]}]

\* fetchStatus without its isAuthenticated guard.
fetchStatus_NoGuard(s) ==
    Send(s, "status")

\* fetchStatus() up to its await: nothing when not authenticated, else the
\* GET leaves with the current key.
fetchStatus(s) ==
    IF ~s.isAuthenticated THEN s ELSE Send(s, "status")

\* ----------------------------------------------------------------- buttons
\* updateButtonStates with isEnded forgotten in the start controls.
updateButtonStates_IgnoresEnded(s) ==
    [s EXCEPT !.disabled =
        [start7 |-> s.competitionState.isActive,
         start14 |-> s.competitionState.isActive,
         start30 |-> s.competitionState.isActive,
         reset |-> ~s.competitionState.isActive
                   /\ ~s.competitionState.isEnded]]

updateButtonStates(s) ==
    LET isCompetitionActive ==
            s.competitionState.isActive /\ ~s.competitionState.isEnded
    IN  [s EXCEPT !.disabled =
            [start7 |-> isCompetitionActive,
             start14 |-> isCompetitionActive,
             start30 |-> isCompetitionActive,
             reset |-> ~s.competitionState.isActive
                       /\ ~s.competitionState.isEnded]]

\* --------------------------------------------------------------- countdown
\* String(n).padStart(2, '0')
PadStart2(n) ==
    IF Len(ToString(n)) >= 2 THEN ToString(n) ELSE "0" \o ToString(n)

\* The four fields updateCountdown writes for a distance >= 0.
CountdownDays(distance) == distance \div MsPerDay
\* The hours with the remainder by a day forgotten.
CountdownHours_NoRemainder(distance) == distance \div MsPerHour
CountdownHours(distance) == (distance % MsPerDay) \div MsPerHour
CountdownMinutes(distance) == (distance % MsPerHour) \div MsPerMinute
CountdownSeconds(distance) == (distance % MsPerMinute) \div MsPerSecond

CountdownFields(distance) ==
    [adminDays |-> PadStart2(CountdownDays(distance)),
     adminHours |-> PadStart2(CountdownHours(distance)),
     adminMinutes |-> PadStart2(CountdownMinutes(distance)),
     adminSeconds |-> PadStart2(CountdownSeconds(distance)),
     ending |-> (CountdownDays(distance) = 0 /\ CountdownHours(distance) < 24)]

ZeroFields ==
    [adminDays |-> "00", adminHours |-> "00", adminMinutes |-> "00",
     adminSeconds |-> "00"]

\* The branch of updateCountdown taken when the end time has passed.
countdownExpired(s) ==
    LET s1 == [s EXCEPT
                 !.display.adminDays = ZeroFields.adminDays,
                 !.display.adminHours = ZeroFields.adminHours,
                 !.display.adminMinutes = ZeroFields.adminMinutes,
                 !.display.adminSeconds = ZeroFields.adminSeconds,
                 !.refetches = IF s.isAuthenticated /\ @ < 2 THEN @ + 1 ELSE @]
    IN  fetchStatus(stopCountdown(s1))

updateCountdown(s) ==
    IF ~s.competitionState.isActive \/ s.competitionState.endTime = NoTime
    THEN [s EXCEPT !.display.countdown = "placeholder"]
    ELSE LET distance == s.competitionState.endTime - now
         IN  IF distance < 0
             THEN countdownExpired(s)
             ELSE LET f == CountdownFields(distance)
                  IN  [s EXCEPT
                         !.display.adminDays = f.adminDays,
                         !.display.adminHours = f.adminHours,
                         !.display.adminMinutes = f.adminMinutes,
                         !.display.adminSeconds = f.adminSeconds,
                         !.display.ending = f.ending]

\* startCountdown without the stopCountdown() it begins with.
startCountdown_NoStop(s) ==
    LET s1 == updateCountdown(s)
        h == NewHandle(s1)
    IN  [s1 EXCEPT
            !.countdownInterval = h,
            !.lastHandle = h,
            !.intervals = @ \cup {[id |-> h, fn |-> "updateCountdown",
                                   delay |-> TIMER_UPDATE_INTERVAL]}]

startCountdown(s) ==
    LET s1 == updateCountdown(stopCountdown(s))
        h == NewHandle(s1)
    IN  [s1 EXCEPT
            !.countdownInterval = h,
            !.lastHandle = h,
            !.intervals = @ \cup {[id |-> h, fn |-> "updateCountdown",
                                   delay |-> TIMER_UPDATE_INTERVAL]}]

\* ------------------------------------------------------------------ logout
handleLogout(s) ==
    LET s1 == [s EXCEPT
                 !.isAuthenticated = FALSE,
                 !.adminApiKey = NoKey,
                 !.sessionStorage = NoKey,
                 !.pending = MarkOld(@)]
    IN  showLoginSection(stopCountdown(stopStatusRefresh(s1)))

\* ------------------------------------------------------------ continuations
\* handleLogin with fetchStatus() called before isAuthenticated is set.
handleLoginResponse_FetchFirst(s, resp) ==
    IF resp = NetworkError
    THEN s
    ELSE IF ResponseOk(resp)
         THEN LET s1 == [fetchStatus(s) EXCEPT
                           !.isAuthenticated = TRUE,
                           !.sessionStorage = s.adminApiKey]
              IN  startStatusRefresh(showAdminControls(s1))
         ELSE s

\* handleLogin after its await: the rest of the try block and the catch.
handleLoginResponse(s, resp) ==
    IF resp = NetworkError
    THEN s
    ELSE IF ResponseOk(resp)
         THEN LET s1 == [s EXCEPT !.isAuthenticated = TRUE,
                                  !.sessionStorage = s.adminApiKey]
              IN  startStatusRefresh(fetchStatus(showAdminControls(s1)))
         ELSE s

\* verifyAuthentication removing the stored key when the check is accepted.
verifyAuthenticationResponse_DropsStored(s, resp) ==
    IF resp = NetworkError
    THEN s
    ELSE IF ResponseOk(resp)
         THEN LET s1 == [s EXCEPT !.isAuthenticated = TRUE,
                                  !.sessionStorage = NoKey]
              IN  startStatusRefresh(fetchStatus(showAdminControls(s1)))
         ELSE [s EXCEPT !.sessionStorage = NoKey, !.adminApiKey = NoKey]

\* verifyAuthentication after its await.
verifyAuthenticationResponse(s, resp) ==
    IF resp = NetworkError
    THEN s
    ELSE IF ResponseOk(resp)
         THEN LET s1 == [s EXCEPT !.isAuthenticated = TRUE]
              IN  startStatusRefresh(fetchStatus(showAdminControls(s1)))
         ELSE [s EXCEPT !.sessionStorage = NoKey, !.adminApiKey = NoKey]

\* The object fetchStatus builds from data.competition (x || 0 keeps a number).
NewCompetitionState(c) ==
    [isActive |-> c.isActive, isEnded |-> c.isEnded, startTime |-> c.startTime,
     endTime |-> c.endTime, remainingSeconds |-> c.remainingSeconds,
     durationDays |-> c.durationDays]

\* data.success && data.competition
StatusBodyAccepted(body) == body.success /\ body.hasCompetition

\* fetchStatus starting the countdown for every active competition, ended
\* or not.
applyStatus_IgnoresEnded(s, c) ==
    LET s1 == [s EXCEPT
                 !.competitionState = NewCompetitionState(c),
                 !.refetches = IF c.endTime = s.competitionState.endTime
                               THEN @ ELSE 0]
        s2 == IF s1.competitionState.isActive
              THEN startCountdown(s1)
              ELSE stopCountdown(s1)
    IN  updateButtonStates(s2)

\* The branch of fetchStatus that replaces competitionState.
applyStatus(s, c) ==
    LET s1 == [s EXCEPT
                 !.competitionState = NewCompetitionState(c),
                 !.refetches = IF c.endTime = s.competitionState.endTime
                               THEN @ ELSE 0]
        s2 == IF s1.competitionState.isActive /\ ~s1.competitionState.isEnded
              THEN startCountdown(s1)
              ELSE stopCountdown(s1)
    IN  updateButtonStates(s2)

\* fetchStatus with every non-2xx status taken for an expired session.
fetchStatusResponse_AnyErrorLogsOut(s, resp) ==
    IF resp = NetworkError
    THEN s
    ELSE IF ~ResponseOk(resp)
         THEN handleLogout(s)
         ELSE IF ~resp.body.json
              THEN s
              ELSE IF StatusBodyAccepted(resp.body)
                   THEN applyStatus(s, resp.body.competition)
                   ELSE s

\* fetchStatus after its await.
fetchStatusResponse(s, resp) ==
    IF resp = NetworkError
    THEN s
    ELSE IF ~ResponseOk(resp)
         THEN IF IsUnauthorized(resp) THEN handleLogout(s) ELSE s
         ELSE IF ~resp.body.json
              THEN s
              ELSE IF StatusBodyAccepted(resp.body)
                   THEN applyStatus(s, resp.body.competition)
                   ELSE s

\* handleStartCompetition after its awaits.
handleStartResponse(s, resp) ==
    IF resp = NetworkError \/ ~resp.body.json
    THEN updateButtonStates(s)
    ELSE IF resp.body.success
         THEN fetchStatus(s)
         ELSE updateButtonStates(s)

\* handleResetCompetition after its awaits; the finally block runs last.
handleResetResponse(s, resp) ==
    LET s1 == IF resp = NetworkError \/ ~resp.body.json
              THEN s
              ELSE IF resp.body.success THEN fetchStatus(s) ELSE s
    IN  [s1 EXCEPT !.disabled.reset = FALSE]

\* ----------------------------------------------------------------- actions
\* The callback returns: its final state becomes the next state.
Apply(s) ==
    /\ isAuthenticated' = s.isAuthenticated
    /\ adminApiKey' = s.adminApiKey
    /\ competitionState' = s.competitionState
    /\ statusRefreshInterval' = s.statusRefreshInterval
    /\ countdownInterval' = s.countdownInterval
    /\ sessionStorage' = s.sessionStorage
    /\ intervals' = s.intervals
    /\ pending' = s.pending
    /\ disabled' = s.disabled
    /\ display' = s.display
    /\ loginVisible' = s.loginVisible
    /\ lastHandle' = s.lastHandle
    /\ refetches' = s.refetches

Received(s, r) == [s EXCEPT !.pending = @ (-) SetToBag({r})]

\* const response = await fetch(...) resumes with a response of the given
\* status; the function calls response.json() and awaits the body.
AwaitJson(s, r, status) ==
    [s EXCEPT !.pending =
        (@ (-) SetToBag({r})) (+) SetToBag({[r EXCEPT !.status = status]})]
PendingOf(kind) == {r \in BagToSet(pending) : r.kind = kind}

Init ==
    /\ isAuthenticated = FALSE
    /\ adminApiKey = NoKey
    /\ competitionState = InitialCompetition
    /\ statusRefreshInterval = NoHandle
    /\ countdownInterval = NoHandle
    /\ sessionStorage \in StoredKeys
    /\ intervals = {}
    /\ pending = EmptyBag
    /\ disabled = [start7 |-> FALSE, start14 |-> FALSE, start30 |-> FALSE,
                   reset |-> FALSE]
    /\ display = [adminDays |-> "00", adminHours |-> "00",
                  adminMinutes |-> "00", adminSeconds |-> "00",
                  countdown |-> "fields", ending |-> FALSE]
    /\ loginVisible = TRUE
    /\ lastHandle = NoHandle
    /\ pc = "loading"
    /\ now = StartNow
    /\ refetches = 0

\* init(): restore the saved key and start verifying it.
init ==
    /\ pc = "loading"
    /\ pc' = "ready"
    /\ LET savedKey == sessionStorage
           s == IF savedKey # NoKey
                THEN Send([State EXCEPT !.adminApiKey = savedKey], "verify")
                ELSE State
       IN  Apply(s)
    /\ UNCHANGED now

\* The login form is submitted with `raw` in the password field.
handleLogin(raw) ==
    /\ pc = "ready"
    /\ loginVisible
    /\ NumPending < MaxPending
    /\ LET password == Trim(raw)
           s == IF password = NoKey
                THEN State
                ELSE Send([State EXCEPT !.adminApiKey = password], "login")
       IN  Apply(s)
    /\ UNCHANGED <<pc, now>>

LoginResponse(r, resp) ==
    /\ pc = "ready"
    /\ LET s == handleLoginResponse(Received(State, r), resp)
       IN  Apply(s)
    /\ UNCHANGED <<pc, now>>

VerifyResponse(r, resp) ==
    /\ pc = "ready"
    /\ LET s == verifyAuthenticationResponse(Received(State, r), resp)
       IN  Apply(s)
    /\ UNCHANGED <<pc, now>>

\* The logout button, in the admin controls, is clicked.
LogoutClick ==
    /\ pc = "ready"
    /\ ~loginVisible
    /\ LET s == handleLogout(State)
       IN  Apply(s)
    /\ UNCHANGED <<pc, now>>

StartDisabled(days) ==
    CASE days = 7 -> disabled.start7
      [] days = 14 -> disabled.start14
      [] days = 30 -> disabled.start30

\* handleStartCompetition with the answer to confirm() ignored.
handleStartCompetition_NoConfirm(durationDays, confirmed) ==
    /\ pc = "ready"
    /\ ~StartDisabled(durationDays)
    /\ NumPending < MaxPending
    /\ LET s == IF ~isAuthenticated
                THEN State
                ELSE Send([State EXCEPT !.disabled.start7 = TRUE,
                                        !.disabled.start14 = TRUE,
                                        !.disabled.start30 = TRUE],
                          "start")
       IN  Apply(s)
    /\ UNCHANGED <<pc, now>>

\* handleStartCompetition(durationDays) up to its await: a start button that
\* is not disabled is clicked and the confirm() prompt is answered.  The
\* handler checks isAuthenticated itself, so the click is taken in any state,
\* also with the admin controls hidden.
handleStartCompetition(durationDays, confirmed) ==
    /\ pc = "ready"
    /\ ~StartDisabled(durationDays)
    /\ NumPending < MaxPending
    /\ LET s == IF ~isAuthenticated \/ ~confirmed
                THEN State
                ELSE Send([State EXCEPT !.disabled.start7 = TRUE,
                                        !.disabled.start14 = TRUE,
                                        !.disabled.start30 = TRUE],
                          "start")
       IN  Apply(s)
    /\ UNCHANGED <<pc, now>>

\* handleStartCompetition resumes from await fetch(): it reads nothing of the
\* response and awaits its body.
StartFetched(r, status) ==
    /\ pc = "ready"
    /\ r.status = 0
    /\ LET s == AwaitJson(State, r, status)
       IN  Apply(s)
    /\ UNCHANGED <<pc, now>>

\* The call ends: fetch() rejects (a network error), or the body of the
\* response held is read.
StartResponse(r, resp) ==
    /\ pc = "ready"
    /\ r.status = resp.status
    /\ LET s == handleStartResponse(Received(State, r), resp)
       IN  Apply(s)
    /\ UNCHANGED <<pc, now>>

\* handleResetCompetition up to its await.
handleResetCompetition(confirmed) ==
    /\ pc = "ready"
    /\ ~disabled.reset
    /\ NumPending < MaxPending
    /\ LET s == IF ~isAuthenticated \/ ~confirmed
                THEN State
                ELSE Send([State EXCEPT !.disabled.reset = TRUE], "reset")
       IN  Apply(s)
    /\ UNCHANGED <<pc, now>>

\* handleResetCompetition resumes from await fetch().
ResetFetched(r, status) ==
    /\ pc = "ready"
    /\ r.status = 0
    /\ LET s == AwaitJson(State, r, status)
       IN  Apply(s)
    /\ UNCHANGED <<pc, now>>

\* The call ends: fetch() rejects, or the body of the response held is read.
ResetResponse(r, resp) ==
    /\ pc = "ready"
    /\ r.status = resp.status
    /\ LET s == handleResetResponse(Received(State, r), resp)
       IN  Apply(s)
    /\ UNCHANGED <<pc, now>>

\* The interval set by startStatusRefresh fires.
StatusRefreshTick(t) ==
    /\ pc = "ready"
    /\ t.fn = "fetchStatus"
    /\ NumPending < MaxPending
    /\ LET s == fetchStatus(State)
       IN  Apply(s)
    /\ UNCHANGED <<pc, now>>

\* The interval set by startCountdown fires.
CountdownTick(t) ==
    /\ pc = "ready"
    /\ t.fn = "updateCountdown"
    /\ NumPending < MaxPending
    /\ LET s == updateCountdown(State)
       IN  Apply(s)
    /\ UNCHANGED <<pc, now>>

\* fetchStatus resumes from await fetch() with a 2xx response and awaits
\* its body.
StatusFetched(r, status) ==
    /\ pc = "ready"
    /\ r.status = 0
    /\ status >= 200 /\ status <= 299
    /\ LET s == AwaitJson(State, r, status)
       IN  Apply(s)
    /\ UNCHANGED <<pc, now>>

\* fetchStatus ends: fetch() rejects or resolves with a non-2xx response, or
\* the body of the 2xx response held is read.
StatusResponse(r, resp) ==
    /\ pc = "ready"
    /\ r.status = (IF ResponseOk(resp) THEN resp.status ELSE 0)
    /\ LET s == fetchStatusResponse(Received(State, r), resp)
       IN  Apply(s)
    /\ UNCHANGED <<pc, now>>

\* A second passes.
AdvanceTime ==
    /\ pc = "ready"
    /\ now < EndNow
    /\ now' = now + TIMER_UPDATE_INTERVAL
    /\ UNCHANGED <<isAuthenticated, adminApiKey, competitionState,
                   statusRefreshInterval, countdownInterval, sessionStorage,
                   intervals, pending, disabled, display, loginVisible,
                   lastHandle, pc, refetches>>

\* The beforeunload listener, registered when the script is evaluated: both
\* timers are stopped.  Requests in flight are not cancelled and the page
\* goes on handling events until the browser discards it.
beforeunload ==
    /\ LET s == stopCountdown(stopStatusRefresh(State))
       IN  Apply(s)
    /\ UNCHANGED <<pc, now>>

\* The events of the page.  The three continuations that may call setInterval
\* are taken as long as the page has made at most `handles` calls of it.
Events(handles) ==
    \/ init
    \/ \E raw \in RawPasswords : handleLogin(raw)
    \/ \E r \in PendingOf("login"), resp \in AuthResponses :
          LoginResponse(r, resp) /\ lastHandle' <= handles
    \/ \E r \in PendingOf("verify"), resp \in AuthResponses :
          VerifyResponse(r, resp) /\ lastHandle' <= handles
    \/ LogoutClick
    \/ \E d \in Durations, c \in BOOLEAN : handleStartCompetition(d, c)
    \/ \E r \in PendingOf("start"), c \in HttpStatuses : StartFetched(r, c)
    \/ \E r \in PendingOf("start"), resp \in ActionResponses : StartResponse(r, resp)
    \/ \E c \in BOOLEAN : handleResetCompetition(c)
    \/ \E r \in PendingOf("reset"), c \in HttpStatuses : ResetFetched(r, c)
    \/ \E r \in PendingOf("reset"), resp \in ActionResponses : ResetResponse(r, resp)
    \/ \E t \in intervals : StatusRefreshTick(t)
    \/ \E t \in intervals : CountdownTick(t)
    \/ \E r \in PendingOf("status"), c \in HttpStatuses : StatusFetched(r, c)
    \/ \E r \in PendingOf("status"), resp \in StatusResponses :
          StatusResponse(r, resp) /\ lastHandle' <= handles
    \/ AdvanceTime
    \/ beforeunload

Next == Events(MaxHandles)

Spec == Init /\ [][Next]_vars

\* The same page and the same events, followed one call of setInterval
\* further.
NextTimers == Events(MaxTimerHandles)

SpecTimers == Init /\ [][NextTimers]_vars

\* ------------------------------------------------- the countdown on its own
\* Distances end - now, in ms, that a status body may put on the display:
\* every field at its least and greatest value, and days of one and two
\* digits (TLC's integers end at 2^31 - 1 ms, a little under 25 days).
DayCases == {0, 1, 9, 10, 23}
HourCases == {0, 1, 23}
MinuteCases == {0, 1, 59}
SecondCases == {0, 1, 59}
MilliCases == {0, 1, 999}
Distances ==
    {d * MsPerDay + h * MsPerHour + m * MsPerMinute + sec * MsPerSecond + ms :
        d \in DayCases, h \in HourCases, m \in MinuteCases,
        sec \in SecondCases, ms \in MilliCases}

\* A 200 status response for an active competition ending `distance` ms
\* after the start of the clock.
EndingIn(distance) ==
    [status |-> 200,
     body |-> StatusBody([isActive |-> TRUE, isEnded |-> FALSE,
                          startTime |-> 500, endTime |-> StartNow + distance,
                          remainingSeconds |-> distance \div MsPerSecond,
                          durationDays |-> 7])]
CountdownResponses == {EndingIn(d) : d \in Distances}

\* The panel right after a login was accepted: authenticated, the poller
\* set, the first status fetch in flight.
InitCountdown ==
    /\ isAuthenticated = TRUE
    /\ adminApiKey = "k1"
    /\ competitionState = InitialCompetition
    /\ statusRefreshInterval = 1
    /\ countdownInterval = NoHandle
    /\ sessionStorage = "k1"
    /\ intervals = {[id |-> 1, fn |-> "fetchStatus",
                     delay |-> STATUS_REFRESH_INTERVAL]}
    /\ pending = SetToBag({Request("status")})
    /\ disabled = [start7 |-> FALSE, start14 |-> FALSE, start30 |-> FALSE,
                   reset |-> FALSE]
    /\ display = [adminDays |-> "00", adminHours |-> "00",
                  adminMinutes |-> "00", adminSeconds |-> "00",
                  countdown |-> "fields", ending |-> FALSE]
    /\ loginVisible = FALSE
    /\ lastHandle = 1
    /\ pc = "ready"
    /\ now = StartNow
    /\ refetches = 0

NextCountdown ==
    \/ \E r \in PendingOf("status"), c \in HttpStatuses : StatusFetched(r, c)
    \/ \E r \in PendingOf("status"), resp \in CountdownResponses :
          StatusResponse(r, resp) /\ lastHandle' <= MaxHandles
    \/ \E t \in intervals : CountdownTick(t)
    \/ AdvanceTime

SpecCountdown == InitCountdown /\ [][NextCountdown]_vars

\* ================================================================== claims
\* A timer runs when the browser holds a live interval for its callback.
PollTimerRunning == \E t \in intervals : t.fn = "fetchStatus"
CountdownTimerRunning == \E t \in intervals : t.fn = "updateCountdown"
TimersStopped ==
    /\ statusRefreshInterval = NoHandle
    /\ countdownInterval = NoHandle
    /\ ~PollTimerRunning
    /\ ~CountdownTimerRunning

StartControlsDisabled ==
    disabled.start7 /\ disabled.start14 /\ disabled.start30
StartControlsEnabled ==
    ~disabled.start7 /\ ~disabled.start14 /\ ~disabled.start30

UnauthorizedStatusResponses == {resp \in StatusResponses : IsUnauthorized(resp)}
UnauthorizedActionResponses == {resp \in ActionResponses : IsUnauthorized(resp)}

\* A step in which an authenticated call is answered with 401 or 403.
UnauthorizedAnswer ==
    \/ \E r \in PendingOf("status"), resp \in UnauthorizedStatusResponses :
          StatusResponse(r, resp)
    \/ \E r \in PendingOf("start"), resp \in UnauthorizedActionResponses :
          StartResponse(r, resp)
    \/ \E r \in PendingOf("reset"), resp \in UnauthorizedActionResponses :
          ResetResponse(r, resp)

\* C1: whenever the panel is logged in and a 401 or 403 response arrives for
\* a status fetch, a start or a reset, the panel is logged out afterwards:
\* not authenticated, the key cleared in memory and in session storage, and
\* both timers stopped.
C1_UnauthorizedLogsOut ==
    [][(isAuthenticated /\ UnauthorizedAnswer)
         => (~isAuthenticated' /\ adminApiKey' = NoKey
             /\ sessionStorage' = NoKey /\ TimersStopped')]_vars

\* C2: in every state in which the panel is not authenticated, neither the
\* status-poll timer nor the countdown timer is running.
C2_NoTimerWhileLoggedOut ==
    ~isAuthenticated => TimersStopped

\* A step in which fetchStatus replaces competitionState: the answer to a
\* status request was a 200 whose body carried the competition now held.
StatusUpdate ==
    \E r \in PendingOf("status") :
        StatusResponse(r, [status |-> 200,
                           body |-> StatusBody(competitionState')])

\* The end time of competition state cs has passed.
Expired(cs) ==
    cs.isActive /\ cs.endTime # NoTime /\ cs.endTime - now < 0

\* A step in which updateCountdown finds a negative distance: a tick of the
\* countdown timer, or the computation startCountdown makes when a status
\* update reports an active competition.
ExpiredComputation ==
    \/ Expired(competitionState) /\ \E t \in intervals : CountdownTick(t)
    \/ /\ ~competitionState'.isEnded /\ Expired(competitionState')
       /\ StatusUpdate

\* C3: when a countdown computation finds a negative distance, the four
\* fields show "00", the countdown timer is stopped afterwards, and one status
\* refetch is triggered per expiry crossing: never a second one for the same
\* end time.
C3_ExpiryStopsAndRefetchesOnce ==
    /\ [][ExpiredComputation
            => (/\ display'.adminDays = "00" /\ display'.adminHours = "00"
                /\ display'.adminMinutes = "00" /\ display'.adminSeconds = "00"
                /\ countdownInterval' = NoHandle
                /\ ~CountdownTimerRunning')]_vars
    /\ [](refetches <= 1)

\* C4: while a start request is in flight all three start controls are
\* disabled, and no second start request is in flight with it.
C4_StartInFlightKeepsControlsDisabled ==
    NumOfKind(pending, "start") > 0
        => (StartControlsDisabled /\ NumOfKind(pending, "start") = 1)

\* C5: right after a status update, the start controls are disabled iff
\* isActive and not isEnded, and the reset control is disabled iff neither
\* isActive nor isEnded.
C5_ButtonsFollowStatus ==
    [][StatusUpdate
         => LET active == competitionState'.isActive
                          /\ ~competitionState'.isEnded
            IN  /\ disabled'.start7 = active
                /\ disabled'.start14 = active
                /\ disabled'.start30 = active
                /\ disabled'.reset = (~competitionState'.isActive
                                      /\ ~competitionState'.isEnded)]_vars

\* An update to an active and ended competition has been applied: the start
\* controls and the reset control are all enabled.
C5_Witness ==
    /\ isAuthenticated
    /\ competitionState.isActive /\ competitionState.isEnded
    /\ StartControlsEnabled /\ ~disabled.reset

\* A step in which an auth check is answered with a 2xx status.
AuthAccepted ==
    \/ \E r \in PendingOf("login") :
          LoginResponse(r, [status |-> 200, body |-> NoBody])
    \/ \E r \in PendingOf("verify") :
          VerifyResponse(r, [status |-> 200, body |-> NoBody])

\* C6: when the auth check of a login or of the startup restore is accepted,
\* the panel is authenticated, the poller runs, and exactly one status fetch
\* has been issued by that step.
C6_AcceptedLoginFetchesOnce ==
    [][AuthAccepted
         => (/\ isAuthenticated'
             /\ statusRefreshInterval' # NoHandle
             /\ [id |-> statusRefreshInterval', fn |-> "fetchStatus",
                 delay |-> STATUS_REFRESH_INTERVAL] \in intervals'
             /\ NumOfKind(pending', "status")
                  = NumOfKind(pending, "status") + 1)]_vars

\* A typed key was accepted: the panel is authenticated with it, the poller
\* is set and the one status fetch is in flight.
C6_Witness ==
    /\ isAuthenticated
    /\ adminApiKey = "k2" /\ sessionStorage = "k2"
    /\ PollTimerRunning
    /\ NumOfKind(pending, "status") = 1
    /\ competitionState = InitialCompetition

\* A number as two digits at least, a leading zero added to a single digit.
TwoDigits(n) == IF n < 10 THEN "0" \o ToString(n) ELSE ToString(n)

\* The display shows the whole seconds of `distance` ms, split into days,
\* hours under 24, minutes under 60 and seconds under 60.
ShowsSecondsOf(disp, distance) ==
    LET total == distance \div 1000
        sec == total % 60
        min == (total \div 60) % 60
        hrs == (total \div 3600) % 24
        dys == total \div 86400
    IN  /\ dys * 86400 + hrs * 3600 + min * 60 + sec = total
        /\ hrs < 24 /\ min < 60 /\ sec < 60
        /\ disp.adminDays = TwoDigits(dys)
        /\ disp.adminHours = TwoDigits(hrs)
        /\ disp.adminMinutes = TwoDigits(min)
        /\ disp.adminSeconds = TwoDigits(sec)
        /\ Len(disp.adminDays) >= 2 /\ Len(disp.adminHours) = 2
        /\ Len(disp.adminMinutes) = 2 /\ Len(disp.adminSeconds) = 2

\* A step in which updateCountdown computes the fields: a tick of the
\* countdown timer, or a status update that starts the countdown.
CountdownComputation ==
    \/ \E t \in intervals : CountdownTick(t)
    \/ /\ competitionState'.isActive /\ ~competitionState'.isEnded
       /\ StatusUpdate

\* C7: after every countdown computation on an active competition whose end
\* time is D >= 0 ms away, the fields satisfy
\* days*86400 + hours*3600 + minutes*60 + seconds = floor(D/1000) with
\* hours < 24, minutes < 60, seconds < 60, each zero-padded to two digits.
C7_FieldsDecomposeDistance ==
    [][(/\ CountdownComputation
        /\ competitionState'.isActive
        /\ competitionState'.endTime # NoTime
        /\ competitionState'.endTime - now >= 0)
         => ShowsSecondsOf(display', competitionState'.endTime - now)]_vars

\* The scenario of the specification: 3661000 ms to go, shown as 00:01:01:01.
C7_Witness ==
    /\ competitionState.isActive
    /\ competitionState.endTime - now = 3661000
    /\ display.adminDays = "00" /\ display.adminHours = "01"
    /\ display.adminMinutes = "01" /\ display.adminSeconds = "01"

\* C8: after a login submission whose auth check fails (401/403, another
\* non-2xx status, or a network error) the panel is logged out and the
\* submitted key is discarded: the key in memory is empty and session storage
\* holds nothing.
C8_FailedLoginDiscardsKey ==
    [][(\E r \in PendingOf("login"), resp \in AuthResponses :
            ~ResponseOk(resp) /\ LoginResponse(r, resp))
         => (~isAuthenticated' /\ adminApiKey' = NoKey
             /\ sessionStorage' = NoKey)]_vars

\* C9: a startup auth check of a persisted key that ends with a network
\* error or a non-401/403 HTTP failure leaves the persisted key in place.
C9_IndeterminateVerifyKeepsKey ==
    [][(\E r \in PendingOf("verify"), resp \in AuthResponses :
            /\ ~ResponseOk(resp) /\ ~IsUnauthorized(resp)
            /\ VerifyResponse(r, resp))
         => sessionStorage' = sessionStorage]_vars

\* The status responses fetchStatus treats as a failure that is not an
\* expired session: a network error, a non-2xx status other than 401/403, a
\* body that cannot be parsed, a body without success or without competition.
FailedStatusResponses ==
    {resp \in StatusResponses :
        \/ resp = NetworkError
        \/ ~ResponseOk(resp) /\ ~IsUnauthorized(resp)
        \/ ResponseOk(resp) /\ ~resp.body.json
        \/ ResponseOk(resp) /\ ~StatusBodyAccepted(resp.body)}

\* C10: a failed status fetch leaves competitionState, the authentication
\* state, the key and both timers unchanged; competitionState changes only by
\* being replaced as a whole by a successful status fetch; a countdown tick
\* never changes it.
C10_FailedFetchChangesNothing ==
    [][/\ (\E r \in PendingOf("status"), resp \in FailedStatusResponses :
              StatusResponse(r, resp))
          => UNCHANGED <<competitionState, isAuthenticated, adminApiKey,
                         sessionStorage, statusRefreshInterval,
                         countdownInterval, intervals>>
       /\ competitionState' # competitionState
          => StatusUpdate
       /\ (\E t \in intervals : CountdownTick(t))
          => competitionState' = competitionState]_vars

\* The countdown expired and triggered its refetch, and every status request
\* has been answered since, yet the state is the one the expiry left: active,
\* the same end time, the countdown stopped, the poller running.  An accepted
\* answer would have restarted the countdown or replaced the state, so the
\* refetch failed and changed nothing.
C10_Witness ==
    /\ pc = "ready"
    /\ isAuthenticated
    /\ competitionState.isActive /\ ~competitionState.isEnded
    /\ Expired(competitionState)
    /\ refetches = 1
    /\ countdownInterval = NoHandle
    /\ PollTimerRunning
    /\ NumOfKind(pending, "status") = 0

\* A start or reset click that the handler drops: the prompt was declined, or
\* the panel is not authenticated.
DroppedClick ==
    \/ \E d \in Durations : handleStartCompetition(d, FALSE)
    \/ handleResetCompetition(FALSE)
    \/ /\ ~isAuthenticated
       /\ \/ \E d \in Durations : handleStartCompetition(d, TRUE)
          \/ handleResetCompetition(TRUE)

\* C11: a start or reset click that is declined, or made while not
\* authenticated, sends nothing and leaves the buttons, competitionState, the
\* key and the timers as they were; a confirmed click sends exactly one POST;
\* and a start or reset request only ever leaves in such a click: no answer,
\* timer or other handler sends a failed one again.
C11_ConfirmedActionSendsOnce ==
    [][/\ DroppedClick
          => UNCHANGED <<pending, disabled, competitionState, adminApiKey,
                         sessionStorage, statusRefreshInterval,
                         countdownInterval, intervals>>
       /\ (isAuthenticated /\ \E d \in Durations : handleStartCompetition(d, TRUE))
          => (/\ NumOfKind(pending', "start") = NumOfKind(pending, "start") + 1
              /\ BagCardinality(pending') = BagCardinality(pending) + 1)
       /\ (isAuthenticated /\ handleResetCompetition(TRUE))
          => (/\ NumOfKind(pending', "reset") = NumOfKind(pending, "reset") + 1
              /\ BagCardinality(pending') = BagCardinality(pending) + 1)
       /\ NumOfKind(pending', "start") > NumOfKind(pending, "start")
          => (isAuthenticated /\ \E d \in Durations : handleStartCompetition(d, TRUE))
       /\ NumOfKind(pending', "reset") > NumOfKind(pending, "reset")
          => (isAuthenticated /\ handleResetCompetition(TRUE))]_vars

\* A confirmed start and a confirmed reset have each sent their one POST: both
\* are in flight, nothing else is.
C11_Witness ==
    /\ isAuthenticated
    /\ NumOfKind(pending, "start") = 1
    /\ NumOfKind(pending, "reset") = 1
    /\ BagCardinality(pending) = 2
    /\ StartControlsDisabled

\* C12: while a reset request is in flight the reset control is disabled, and
\* when the call completes, whatever the answer, the reset control is enabled.
C12_ResetDisabledWhileInFlight ==
    /\ [](NumOfKind(pending, "reset") > 0 => disabled.reset)
    /\ [][(\E r \in PendingOf("reset"), resp \in ActionResponses :
              ResetResponse(r, resp))
            => ~disabled'.reset]_vars

\* C13: at startup with a key in session storage, init restores exactly that
\* key and sends the auth check with it; when the check is accepted and no
\* login was submitted meanwhile (the key is still stored, the key in memory
\* is still the restored one and no login request is in flight), the panel is
\* logged in with the stored key and the stored key is left in place.
C13_StoredKeyRestoresSession ==
    [][/\ (init /\ sessionStorage # NoKey)
          => (/\ adminApiKey' = sessionStorage
              /\ sessionStorage' = sessionStorage
              /\ NumOfKind(pending', "verify") = 1
              /\ NumOfKind(pending', "login") = 0)
       /\ (/\ sessionStorage # NoKey
           /\ adminApiKey = sessionStorage
           /\ NumOfKind(pending, "login") = 0
           /\ \E r \in PendingOf("verify") :
                 VerifyResponse(r, [status |-> 200, body |-> NoBody]))
          => (/\ isAuthenticated' /\ ~loginVisible'
              /\ adminApiKey' = sessionStorage
              /\ sessionStorage' = sessionStorage)]_vars

\* The stored key was accepted at startup: the page has just loaded, the
\* panel is logged in with the stored key, the poller is set and only the
\* first status fetch is in flight.
C13_Witness ==
    /\ pc = "ready" /\ now = StartNow
    /\ isAuthenticated /\ ~loginVisible
    /\ adminApiKey = "k1" /\ sessionStorage = "k1"
    /\ PollTimerRunning
    /\ BagCardinality(pending) = 1
    /\ NumOfKind(pending, "status") = 1
    /\ competitionState = InitialCompetition

\* The live intervals that call `fn`.
TimersOf(fn) == {t \in intervals : t.fn = fn}

\* C14: at any time there is at most one live status-poll interval and at
\* most one live countdown interval, and each live interval is the one its
\* handle variable names: no handle was overwritten while its interval lived.
C14_SingleTimerInstances ==
    /\ Cardinality(TimersOf("fetchStatus")) <= 1
    /\ Cardinality(TimersOf("updateCountdown")) <= 1
    /\ \A t \in TimersOf("fetchStatus") : t.id = statusRefreshInterval
    /\ \A t \in TimersOf("updateCountdown") : t.id = countdownInterval

\* The countdown has been started twice in a session whose poller was never
\* restarted: the second countdown interval is live under the handle, the
\* first one was cleared, and the poller is still the first interval.
C14_Witness ==
    /\ isAuthenticated
    /\ statusRefreshInterval = 1
    /\ countdownInterval = 3
    /\ intervals
         = {[id |-> 1, fn |-> "fetchStatus", delay |-> STATUS_REFRESH_INTERVAL],
            [id |-> 3, fn |-> "updateCountdown",
             delay |-> TIMER_UPDATE_INTERVAL]}

\* A start request leaves the requests in flight, as it does in every step
\* that answers one.
StartAnswered ==
    NumOfKind(pending', "start") < NumOfKind(pending, "start")

\* A step in which a start call ends in failure: the request or the parsing
\* of its body throws, or the body says success: false.
StartFailed ==
    /\ StartAnswered
    /\ \E r \in PendingOf("start"), resp \in ActionResponses :
          /\ resp = NetworkError \/ ~resp.body.json \/ ~resp.body.success
          /\ StartResponse(r, resp)

\* A step in which a start call ends with a body that says success: true.
StartSucceeded ==
    /\ StartAnswered
    /\ \E r \in PendingOf("start"), resp \in ActionResponses :
          /\ resp # NetworkError /\ resp.body.json /\ resp.body.success
          /\ StartResponse(r, resp)

\* The start controls are what updateButtonStates makes of competition cs.
StartControlsFollow(dis, cs) ==
    LET active == cs.isActive /\ ~cs.isEnded
    IN  dis.start7 = active /\ dis.start14 = active /\ dis.start30 = active

\* C15: when a start call fails, the start controls are recomputed from the
\* competitionState held (disabled iff isActive and not isEnded) and nothing
\* is fetched; when it succeeds, exactly one status fetch is issued in that
\* step and the start controls are still disabled after it; disabled start
\* controls are enabled again only by a status update or by the recomputation
\* after a failed start call.
C15_StartOutcome ==
    [][/\ StartFailed
          => (/\ StartControlsFollow(disabled', competitionState)
              /\ competitionState' = competitionState
              /\ NumOfKind(pending', "status") = NumOfKind(pending, "status"))
       /\ StartSucceeded
          => (/\ NumOfKind(pending', "status")
                   = NumOfKind(pending, "status") + 1
              /\ StartControlsDisabled')
       /\ (StartControlsDisabled /\ ~StartControlsDisabled')
          => (StatusUpdate \/ StartFailed)]_vars

\* C16: in every state in which the panel is authenticated, the key in
\* memory is not empty and is the key held in session storage.
C16_AuthenticatedKeyIsStoredKey ==
    isAuthenticated => (adminApiKey # NoKey /\ adminApiKey = sessionStorage)

\* C17: when the panel is authenticated and the answer arrives to a status
\* request that was issued before the last logout, the answer changes nothing
\* of the present session: competitionState is not replaced and the panel
\* stays authenticated.
C17_LateStatusAnswerIgnored ==
    [][(/\ isAuthenticated
        /\ \E r \in PendingOf("status"), resp \in StatusResponses :
              r.old /\ StatusResponse(r, resp))
         => (competitionState' = competitionState /\ isAuthenticated')]_vars

\* A request of the given kind leaves in this step.
Issued(kind) == NumOfKind(pending', kind) > NumOfKind(pending, kind)

\* A timer fires or a start or reset button is clicked.
TickOrClick ==
    \/ \E t \in intervals : StatusRefreshTick(t) \/ CountdownTick(t)
    \/ \E d \in Durations, c \in BOOLEAN : handleStartCompetition(d, c)
    \/ \E c \in BOOLEAN : handleResetCompetition(c)

\* C18: a status, start or reset request is issued only by an authenticated
\* panel: a start or reset request only in a step that begins and ends
\* authenticated, a status request only in a step that ends authenticated and
\* either began so or is the acceptance of an auth check; and a timer tick or
\* button click handled while not authenticated sends nothing.
C18_NoRequestWhileLoggedOut ==
    [][/\ (Issued("start") \/ Issued("reset"))
          => (isAuthenticated /\ isAuthenticated')
       /\ Issued("status")
          => (isAuthenticated' /\ (isAuthenticated \/ AuthAccepted))
       /\ (~isAuthenticated /\ TickOrClick)
          => pending' = pending]_vars

\* The countdown found its end time passed while the panel was logged out:
\* it runs on a logged-out panel (started by a late status answer), no
\* refetch was counted or sent, and no unexpired distance was ever displayed.
C18_Witness ==
    /\ pc = "ready"
    /\ ~isAuthenticated
    /\ CountdownTimerRunning
    /\ Expired(competitionState)
    /\ ~display.ending
    /\ refetches = 0
    /\ NumOfKind(pending, "status") = 0

\* C19: right after a status update the countdown timer runs iff the new
\* competitionState is active and not ended: an update reporting an inactive
\* or an ended competition leaves it stopped, the handle cleared.
C19_CountdownFollowsStatus ==
    [][StatusUpdate
         => LET active == competitionState'.isActive
                          /\ ~competitionState'.isEnded
            IN  /\ CountdownTimerRunning' = active
                /\ (countdownInterval' # NoHandle) = active]_vars

\* A countdown that had run and displayed a distance was stopped by an
\* update reporting the competition ended.
C19_Witness ==
    /\ isAuthenticated
    /\ competitionState.isActive /\ competitionState.isEnded
    /\ display.ending
    /\ ~CountdownTimerRunning
    /\ countdownInterval = NoHandle
    /\ PollTimerRunning
====
